---- MODULE Spec2Model ----
(***************************************************************************)
(* A model of src/main.py: the two typer commands `presenters` and `main`  *)
(* (the schedule command) and the helper migrate_mastodon_handle.          *)
(*                                                                         *)
(* Strings are sequences of tokens: a token is a word ("Ada", "png") or a  *)
(* delimiter ("/", ".", "@", "+", " ", "-", ":").  The string operations   *)
(* of the code (startswith, endswith, rsplit, split, in, slicing, join)    *)
(* are computed on the token sequence.  An optional value (`str | None`)   *)
(* is a sequence of length 0 (None) or 1.                                  *)
(*                                                                         *)
(* The presenter directory is assumed to exist and to be writable; the     *)
(* reports on stdout are assumed not to fail.                              *)
(***************************************************************************)
EXTENDS Integers, Sequences, FiniteSets, TLC

VARIABLES
    cmd,                    \* "presenters" | "main": the command that runs
    output_folder,          \* TRUE iff an output root was given
    rows,                   \* json.loads(input_filename.read_text())
    pc,                     \* position in `for row in rows` (1-based)
    run,                    \* 1: first run, 2: second run on the same input
    aborted,                \* an exception left the command
    anon_speaker_counter,   \* next value of count()
    files,                  \* names of the files in the presenter directory
    dir0,                   \* the presenter directory when run 1 started
    out,                    \* per processed row of this run: what it did
    handle,                 \* migrate_mastodon_handle study: the input handle
    stage,                  \* migrate_mastodon_handle study: position
    mastodon                \* migrate_mastodon_handle study: Social.mastodon

vars == <<cmd, output_folder, rows, pc, run, aborted, anon_speaker_counter,
          files, dir0, out, handle, stage, mastodon>>

\* ------------------------------------------------------------------ bounds

MaxRows == 2        \* rows of one input batch
MaxHandle == 4      \* tokens of a mastodon handle

\* ----------------------------------------------------------------- options

None == <<>>
Some(x) == <<x>>
IsSome(o) == Len(o) = 1
Get(o) == o[1]

\* ----------------------------------------------------------------- strings

\* s.startswith(p)
StartsWith(s, p) == Len(s) >= Len(p) /\ SubSeq(s, 1, Len(p)) = p

\* s.endswith(p)
EndsWith(s, p) == Len(s) >= Len(p) /\ SubSeq(s, Len(s) - Len(p) + 1, Len(s)) = p

\* d in s, for a one-token d
Contains(s, d) == \E k \in 1..Len(s) : s[k] = d

\* the positions of token d in s
Positions(s, d) == {k \in 1..Len(s) : s[k] = d}

Max(S) == CHOOSE x \in S : \A y \in S : y <= x
Min(S) == CHOOSE x \in S : \A y \in S : x <= y

\* s.rsplit(d, 1): a list of one or two strings
RSplit1(s, d) ==
    IF Positions(s, d) = {} THEN <<s>>
    ELSE LET k == Max(Positions(s, d))
         IN <<SubSeq(s, 1, k - 1), SubSeq(s, k + 1, Len(s))>>

RECURSIVE Split(_, _)
\* s.split(d): the list of the pieces between the occurrences of d
Split(s, d) ==
    IF Positions(s, d) = {} THEN <<s>>
    ELSE LET k == Min(Positions(s, d))
         IN <<SubSeq(s, 1, k - 1)>> \o Split(SubSeq(s, k + 1, Len(s)), d)

\* parts[-1]
Last(parts) == parts[Len(parts)]

\* x in parts, for a list
InList(x, parts) == \E k \in 1..Len(parts) : parts[k] = x

\* ----------------------------------------------------------------- slugify

\* str.lower() of one word token
Lower(w) ==
    CASE w = "Ada" -> "ada"
      [] w = "Http" -> "http"
      [] w = "Smith" -> "smith"
      [] w = "Anonymous" -> "anonymous"
      [] w = "Talk" -> "talk"
      [] w = "Intro" -> "intro"
      [] OTHER -> w

\* tokens slugify() turns into a separator
IsSeparator(w) == w \in {" ", "-", "!", "<", ">", ".", "/", ":", "@", "+"}

RECURSIVE SlugWords(_)
\* the lowercased words of a text, separators dropped
SlugWords(s) ==
    IF s = <<>> THEN <<>>
    ELSE IF IsSeparator(Head(s)) THEN SlugWords(Tail(s))
    ELSE <<Lower(Head(s))>> \o SlugWords(Tail(s))

RECURSIVE Hyphenate(_)
\* "-".join(words)
Hyphenate(ws) ==
    IF Len(ws) <= 1 THEN ws
    ELSE <<Head(ws), "-">> \o Hyphenate(Tail(ws))

\* slugify(text) for a str: lowercase, hyphen-separated, no leading,
\* trailing or doubled hyphen
slugify(text) == Hyphenate(SlugWords(text))

\* slugify(None) raises TypeError (str(None, "utf-8", "ignore"))
slugify_raises(opt) == ~IsSome(opt)

\* ------------------------------------------------- migrate_mastodon_handle

HTTPS == <<"https", ":", "/", "/">>

\* handle[1:].split("@") unpacked into (username, domain): ValueError unless
\* exactly two pieces
migrate_mastodon_handle_truncating(h) ==
    IF ~StartsWith(h, <<"@">>) THEN Some(h)
    ELSE LET parts == Split(Tail(h), "@")
         IN IF Len(parts) < 2 THEN None
            ELSE Some(HTTPS \o parts[2] \o <<"/", "@">> \o parts[1])

migrate_mastodon_handle(h) ==
    IF ~StartsWith(h, <<"@">>) THEN Some(h)
    ELSE LET parts == Split(Tail(h), "@")
         IN IF Len(parts) # 2 THEN None
            ELSE Some(HTTPS \o parts[2] \o <<"/", "@">> \o parts[1])

\* Social.__init__: `if self.mastodon and self.mastodon.startswith("@")`
SocialInit(m) ==
    IF IsSome(m) /\ Get(m) # <<>> /\ StartsWith(Get(m), <<"@">>)
    THEN migrate_mastodon_handle(Get(m))
    ELSE m

\* presenters: `if data.social.mastodon: ... = migrate_mastodon_handle(...)`
ExplicitCall(m) ==
    IF IsSome(m) /\ Get(m) # <<>> THEN migrate_mastodon_handle(Get(m)) ELSE m

\* ---------------------------------------------------------------- metadata

EmptyDict == [k \in {} |-> None]

\* d.update(e): the keys of e win, the other keys of d stay
Update(d, e) ==
    [k \in DOMAIN d \cup DOMAIN e |-> IF k \in DOMAIN e THEN e[k] ELSE d[k]]

\* model.model_dump(exclude_unset=True): only the fields that were passed
\* to the constructor or assigned afterwards
model_dump_with_defaults(data, fields_set) == data

model_dump(data, fields_set) == [k \in fields_set |-> data[k]]

\* frontmatter.loads(text): the metadata block (or {}) and the content
frontmatter_loads(text) ==
    [metadata |-> IF IsSome(text.block) THEN Get(text.block) ELSE EmptyDict,
     content |-> text.body]

\* ------------------------------------------------------- presenters: input

Ada == <<"Ada">>
HttpSmith == <<"Http", " ", "Smith">>
UrlPng == <<"http", ":", "/", "/", "h", "/", "a", ".", "png">>
UrlBare == <<"http", ":", "/", "/", "h", "/", "a">>
RawPic == <<"pic", ".", "png">>

NoBio == [block |-> None, body |-> <<>>]
BlockBio ==
    [block |-> Some([name |-> <<"Old">>, role |-> <<"Keynote">>,
                     custom |-> <<"x">>]),
     body |-> <<"Hello">>]

\* one row of the presenter export; every key is read with row.get
PRow(name, picture) ==
    [Name |-> name, Picture |-> picture, Biography |-> NoBio,
     company |-> [type |-> "str", text |-> <<"ACME">>],
     mastodon |-> None, twitter |-> None]

PRows ==
    {PRow(n, p) : n \in {None, Some(<<>>), Some(Ada)},
                  p \in {None, Some(UrlBare)}}
    \cup {PRow(Some(Ada), Some(UrlPng)),
          PRow(Some(Ada), Some(RawPic)),
          PRow(Some(HttpSmith), None),
          [PRow(Some(Ada), None) EXCEPT !.company = [type |-> "int", text |-> <<>>]],
          [PRow(Some(Ada), None) EXCEPT !.company = [type |-> "none", text |-> <<>>],
                                        !.Biography = BlockBio,
                                        !.mastodon = Some(<<"@", "u", "@", "d">>),
                                        !.twitter = Some(<<"@", "ada">>)],
          [PRow(Some(Ada), None) EXCEPT !.mastodon = Some(<<"@", "u", "@", "d", "@", "x">>)]}

\* the presenter directory before the first run
PopulatedDir ==
    {<<"ada", ".", "jpg">>, <<"ada", ".", "md">>,
     <<"http", "-", "smith", ".", "jpg">>}

InitialDirs == {{}, PopulatedDir}

\* ------------------------------------------------- presenters: photo lookup

\* presenter_path.glob(f"{slug}.*")
Glob(dir, slug) == {f \in dir : StartsWith(f, slug \o <<".">>)}

\* the first shot of the glob whose name does not end with ".md"; the glob
\* has no order of its own, so any such file can come first
Shots(dir, slug) ==
    LET hits == {f \in Glob(dir, slug) : ~EndsWith(f, <<".", "md">>)}
    IN IF hits = {} THEN {None} ELSE {Some(f) : f \in hits}

\* ---------------------------------------------------- presenters: the fetch

NoResponse == [exc |-> "unused", status |-> 0, ctype |-> None]

Responses ==
    {[exc |-> "ConnectionError", status |-> 0, ctype |-> None],
     [exc |-> "none", status |-> 404, ctype |-> Some(<<"text", "/", "html">>)],
     [exc |-> "none", status |-> 300, ctype |-> Some(<<"image", "/", "png">>)],
     [exc |-> "none", status |-> 200, ctype |-> Some(<<"image", "/", "png">>)],
     [exc |-> "none", status |-> 200, ctype |-> Some(<<"image", "/", "svg", "+", "xml">>)],
     [exc |-> "none", status |-> 200, ctype |-> Some(<<"text", "/", "html">>)],
     [exc |-> "none", status |-> 200, ctype |-> None]}

\* requests.get(url) on a string that is no URL: MissingSchema, a
\* RequestException raised before anything is sent
IsUrl(s) == StartsWith(s, <<"http", ":", "/", "/">>)
MissingSchema == [exc |-> "MissingSchema", status |-> 0, ctype |-> None]

\* response.raise_for_status(): HTTPError for 4xx and 5xx only
raise_for_status(resp) == resp.status >= 400 /\ resp.status < 600

\* the try of lines 230-237: TRUE iff an exception was caught there
FetchFailedNoStatus(resp) == resp.exc # "none"

FetchFailed(resp) == resp.exc # "none" \/ raise_for_status(resp)

\* `"." in data.photo.rsplit("/", 1)`: "." is one of the pieces of the list
UrlBranch(photo) == InList(<<".">>, RSplit1(photo, "/"))

\* lines 239-253: the file name, or the exception raised
Filename(name, photo, resp) ==
    IF UrlBranch(photo)
    THEN [exc |-> "none",
          name |-> slugify(name) \o <<".">> \o Last(RSplit1(photo, "."))]
    ELSE IF ~IsSome(resp.ctype)
    THEN [exc |-> "KeyError", name |-> <<>>]
    ELSE IF StartsWith(Get(resp.ctype), <<"image", "/">>)
            /\ ~Contains(Get(resp.ctype), "+")
    THEN [exc |-> "none",
          name |-> slugify(name) \o <<".">> \o Last(RSplit1(Get(resp.ctype), "/"))]
    ELSE [exc |-> "ValueError", name |-> <<>>]

\* ------------------------------------------------ presenters: one iteration

\* "Anonymous speaker {n}"
Digit(n) ==
    CASE n = 0 -> "0" [] n = 1 -> "1" [] n = 2 -> "2" [] n = 3 -> "3"
      [] n = 4 -> "4" [] n = 5 -> "5" [] OTHER -> "many"

AnonymousSpeaker(n) == <<"Anonymous", " ", "speaker", " ", Digit(n)>>

\* `if not name`: None and "" are falsy
Falsy(opt) == ~IsSome(opt) \/ Get(opt) = <<>>

\* what one iteration of the loop left behind
POutcome ==
    [result |-> "ok",        \* "ok", or the exception caught at the row boundary
     reported |-> FALSE,     \* one of the two handlers printed the row
     anonymous |-> FALSE,    \* row.get("Name") was falsy
     name |-> None,          \* the name given to Presenter(...)
     shot |-> None,          \* default_profile_pic
     get |-> FALSE,          \* requests.get was called
     sent |-> FALSE,         \* a request went out to the network
     resp |-> NoResponse,    \* what requests.get did
     asset |-> None,         \* the image file written
     before |-> {},          \* the presenter directory before the row
     photo0 |-> None,        \* data.photo as Presenter(...) was built
     data |-> None,          \* the Presenter model at the dump
     doc |-> None,           \* post after post.metadata.update(...)
     written |-> None,       \* the .md file written
     emitted |-> FALSE]      \* the document was printed

PresenterFieldsSet == {"company", "hidden", "name", "permalink", "photo", "social"}

\* Presenter(...) of lines 212-227 with every field of the model
Presenter(row, name, photo, social) ==
    [permalink |-> Some(<<"/", "presenters", "/">> \o slugify(name) \o <<"/">>),
     redirect_from |-> None, redirect_to |-> None, sitemap |-> None,
     title |-> None,
     company |-> IF row.company.type = "str" THEN Some(row.company.text) ELSE None,
     hidden |-> FALSE, name |-> name, override_schedule_title |-> None,
     pronouns |-> None, photo |-> photo, role |-> None, social |-> social]

\* Social(...) of lines 219-226, after Social.__init__
Social(row) ==
    [github |-> None, website |-> None, mastodon |-> SocialInit(row.mastodon),
     twitter |-> row.twitter, bluesky |-> None, instagram |-> None]

\* pydantic: company is `str | None`
PresenterValid(row) == row.company.type \in {"str", "none"}

\* lines 259-261: strip the leading @ of the twitter handle
StripAt(t) ==
    IF IsSome(t) /\ Get(t) # <<>> /\ StartsWith(Get(t), <<"@">>)
    THEN Some(Tail(Get(t))) ELSE t

\* line 228: `presenter_path and data.photo and data.photo.startswith("http")`
FetchReached(of, photo) ==
    of /\ IsSome(photo) /\ Get(photo) # <<>> /\ StartsWith(Get(photo), <<"http">>)

\* lines 196-203 raise: slugify(row.get("Name")) with no Name
LookupRaises(row, of) == of /\ slugify_raises(row.Name)

\* default_profile_pic: the choices lines 196-203 can make
ShotChoices(row, of, dir) ==
    IF of /\ ~slugify_raises(row.Name) THEN Shots(dir, slugify(Get(row.Name)))
    ELSE {None}

Photo0(row, shot) == IF IsSome(shot) THEN shot ELSE row.Picture

\* what requests.get can do for this row
ResponseChoices(row, of, shot) ==
    IF LookupRaises(row, of) \/ ~PresenterValid(row)
       \/ ~FetchReached(of, Photo0(row, shot))
    THEN {NoResponse}
    ELSE IF IsUrl(Get(Photo0(row, shot))) THEN Responses ELSE {MissingSchema}

\* the handlers of lines 280-286: the row ends here, reported
Caught(o, exc) == [o EXCEPT !.result = exc, !.reported = TRUE]

\* lines 193-286 for one row: [o: the outcome, files, counter]
PresentersBody(row, of, dir, counter, shot, resp) ==
    LET o0 == [POutcome EXCEPT !.anonymous = Falsy(row.Name), !.before = dir]
        post == frontmatter_loads(row.Biography)
        name == IF Falsy(row.Name) THEN AnonymousSpeaker(counter) ELSE Get(row.Name)
        counter1 == IF Falsy(row.Name) THEN counter + 1 ELSE counter
        photo0 == Photo0(row, shot)
        o1 == [o0 EXCEPT !.name = Some(name), !.shot = shot, !.photo0 = photo0]
        fetch == FetchReached(of, photo0)
        o2 == [o1 EXCEPT !.get = fetch, !.resp = resp,
                         !.sent = fetch /\ resp.exc # "MissingSchema"]
        fname == Filename(name, Get(photo0), resp)
        stored == fetch /\ ~FetchFailed(resp)
        photo == IF stored THEN Some(fname.name) ELSE photo0
        dir1 == IF stored THEN dir \cup {fname.name} ELSE dir
        soc0 == Social(row)
        social == [soc0 EXCEPT !.twitter = StripAt(soc0.twitter),
                               !.mastodon = ExplicitCall(soc0.mastodon)]
        data == Presenter(row, name, photo, social)
        doc == [metadata |-> Update(post.metadata,
                                    model_dump(data, PresenterFieldsSet)),
                content |-> post.content]
        path == slugify(name) \o <<".", "md">>
        o3 == [o2 EXCEPT !.asset = IF stored THEN Some(fname.name) ELSE None,
                         !.data = Some(data),
                         !.doc = Some(doc),
                         !.written = IF of THEN Some(path) ELSE None]
    IN  IF LookupRaises(row, of)
        THEN [o |-> Caught(o0, "TypeError"), files |-> dir, counter |-> counter]
        ELSE IF ~PresenterValid(row)
        THEN [o |-> Caught(o1, "ValidationError"), files |-> dir,
              counter |-> counter1]
        ELSE IF stored /\ fname.exc # "none"
        THEN [o |-> Caught(o2, fname.exc), files |-> dir, counter |-> counter1]
        ELSE [o |-> o3, files |-> IF of THEN dir1 \cup {path} ELSE dir1,
              counter |-> counter1]

\* ------------------------------------------------------------ main: input

\* CONFERENCE_TZ = America/Chicago: minutes east of UTC (daylight time)
CONFERENCE_TZ == -300

\* TUTORIAL_LENGTH_OVERRIDE = relativedelta(hours=3, minutes=30), in minutes
TUTORIAL_LENGTH_OVERRIDE == 210

\* a timestamp of the export: wall-clock minutes and its UTC offset;
\* ok = FALSE is a string dateutil cannot parse
Raw(wall, off) == [ok |-> TRUE, wall |-> wall, off |-> off]
Garbage == [ok |-> FALSE, wall |-> 0, off |-> 0]

T0900 == Raw(540, -300)      \* 09:00 -05:00
T0800 == Raw(480, -300)      \* 08:00 -05:00, before T0900
T1500Z == Raw(900, 0)        \* 15:00 UTC, 10:00 in the conference zone

Talks25 == <<"25-minute talks">>
Tutorials == <<"Tutorials">>
Workshop == <<"Workshop">>

BlockDescription ==
    [block |-> Some([title |-> <<"Old">>, difficulty |-> <<"Advanced">>,
                     custom |-> <<"x">>]),
     body |-> <<"Abstract">>]

\* one row of the session export
MRow(state, type, start, end) ==
    [state |-> state, type |-> type, title |-> <<"Intro", " ", "Talk">>,
     Description |-> [block |-> None, body |-> <<"Abstract">>],
     Start |-> start, End |-> end, Room |-> <<"Room B">>,
     Tags |-> "list", speakers |-> <<Ada>>]

MBase == MRow("accepted", Talks25, Some(T0900), Some(T1500Z))

MRows ==
    {MRow(st, Talks25, Some(T0900), Some(T1500Z)) :
        st \in {"accepted", "confirmed", "submitted", "rejected"}}
    \cup {MRow("accepted", ty, s, e) :
            ty \in {Talks25, Tutorials}, s \in {None, Some(T0900)},
            e \in {None, Some(T0800), Some(T1500Z)}}
    \cup {MRow("accepted", Workshop, Some(T0900), Some(T1500Z)),
          MRow("rejected", Workshop, Some(T0900), Some(Garbage)),
          MRow("confirmed", Tutorials, Some(T0900), Some(Garbage)),
          [MBase EXCEPT !.Tags = "str"],
          [MBase EXCEPT !.Tags = "none"],
          [MBase EXCEPT !.Description = BlockDescription],
          [MBase EXCEPT !.Room = <<"Lobby">>, !.title = <<"<", "Talk", ">">>]}

\* ------------------------------------------------------- main: derivation

\* TALK_FORMATS
TALK_FORMATS ==
    [k \in {Talks25, Tutorials} |-> IF k = Tutorials THEN <<"tutorials">>
                                    ELSE <<"talks">>]

\* TRACKS.get(room, "t0")
TRACKS_get(room) ==
    CASE room \in {<<"Room A">>, <<"Tutorial Track A">>} -> <<"t0">>
      [] room \in {<<"Room B">>, <<"Tutorial Track B">>} -> <<"t1">>
      [] room \in {<<"Online talks">>, <<"Tutorial Track C">>} -> <<"t2">>
      [] OTHER -> <<"t0">>

\* parse(raw).astimezone(CONFERENCE_TZ): the same instant on the
\* conference's clock
astimezone(raw) ==
    [wall |-> raw.wall - raw.off + CONFERENCE_TZ, off |-> CONFERENCE_TZ]

\* dt + TUTORIAL_LENGTH_OVERRIDE
PlusOverride(dt) == [dt EXCEPT !.wall = dt.wall + TUTORIAL_LENGTH_OVERRIDE]

\* `if raw := row.get(key): parse(raw).astimezone(...)`, for a parseable raw
Converted(raw) == IF IsSome(raw) THEN Some(astimezone(Get(raw))) ELSE None

\* line 325: `proposal_state in ["accepted", "confirmed"]`
AcceptedOnly(state) == state = "accepted"

Accepted(state) == state \in {"accepted", "confirmed"}

\* lines 336-337: the tutorial override ignores a raw End that is present
EndDateKeepRaw(type, start_date, end_date) ==
    IF IsSome(start_date) /\ type \in DOMAIN TALK_FORMATS
       /\ TALK_FORMATS[type] = <<"tutorials">> /\ ~IsSome(end_date)
    THEN Some(PlusOverride(Get(start_date)))
    ELSE end_date

EndDate(type, start_date, end_date) ==
    IF IsSome(start_date) /\ type \in DOMAIN TALK_FORMATS
       /\ TALK_FORMATS[type] = <<"tutorials">>
    THEN Some(PlusOverride(Get(start_date)))
    ELSE end_date

RECURSIVE Escape(_)
\* .replace("<", "&lt;").replace(">", "&gt;")
Escape(s) ==
    IF s = <<>> THEN <<>>
    ELSE (CASE Head(s) = "<" -> <<"&lt;">>
            [] Head(s) = ">" -> <<"&gt;">>
            [] OTHER -> <<Head(s)>>) \o Escape(Tail(s))

ScheduleFieldsSet ==
    {"category", "permalink", "tags", "title", "presenter_slugs", "room",
     "track", "datetime", "end_datetime"}

\* Schedule(...) of lines 340-353 with every field of the model
Schedule(row, start_date, end_date) ==
    [permalink |-> Some(<<"/">> \o TALK_FORMATS[row.type] \o <<"/">>
                        \o slugify(row.title) \o <<"/">>),
     redirect_from |-> None, redirect_to |-> None, sitemap |-> TRUE,
     title |-> Escape(row.title), category |-> TALK_FORMATS[row.type],
     difficulty |-> <<"All">>, end_datetime |-> end_date, image |-> None,
     presenter_slugs |-> [k \in 1..Len(row.speakers) |-> slugify(row.speakers[k])],
     room |-> row.Room, show_video_urls |-> None, slides_url |-> None,
     datetime |-> start_date, tags |-> row.Tags, track |-> TRACKS_get(row.Room),
     video_url |-> None]

\* pydantic: tags is `list[str] | None`
ScheduleValid(row) == row.Tags \in {"list", "none"}

\* what one iteration of the loop of main left behind
MOutcome ==
    [result |-> "ok",        \* "skipped", "ok", or the exception raised
     reported |-> FALSE,     \* one of the two handlers printed the row
     accepted |-> FALSE,     \* the proposal state passed the filter
     data |-> None,          \* the Schedule model
     doc |-> None,           \* post after post.metadata.update(...)
     written |-> None,       \* the .md file written
     emitted |-> FALSE]      \* the document was printed

\* the handlers of lines 372-380: report, then raise
Reraised(o, exc) == [o EXCEPT !.result = exc, !.reported = TRUE]

\* lines 324-380 for one row: [o: the outcome, raised: an exception left the loop]
MainBody(row, of) ==
    LET o0 == [MOutcome EXCEPT !.accepted = TRUE]
        post == frontmatter_loads(row.Description)
        start_date == Converted(row.Start)
        end_date == EndDate(row.type, start_date, Converted(row.End))
        data == Schedule(row, start_date, end_date)
        doc == [metadata |-> Update(post.metadata,
                                    model_dump(data, ScheduleFieldsSet)),
                content |-> post.content]
        o1 == [o0 EXCEPT !.data = Some(data), !.doc = Some(doc)]
        path == [category |-> data.category, datetime |-> Get(data.datetime),
                 track |-> data.track, slug |-> slugify(data.title)]
    IN  IF ~Accepted(row.state)
        THEN [o |-> [MOutcome EXCEPT !.result = "skipped"], raised |-> FALSE]
        ELSE IF (IsSome(row.Start) /\ ~Get(row.Start).ok)
                \/ (IsSome(row.End) /\ ~Get(row.End).ok)
        THEN [o |-> [o0 EXCEPT !.result = "ParserError"], raised |-> TRUE]
        ELSE IF row.type \notin DOMAIN TALK_FORMATS
        THEN [o |-> Reraised(o0, "KeyError"), raised |-> TRUE]
        ELSE IF ~ScheduleValid(row)
        THEN [o |-> Reraised(o0, "ValidationError"), raised |-> TRUE]
        ELSE IF of /\ ~IsSome(data.datetime)
        THEN [o |-> Reraised(o1, "AttributeError"), raised |-> TRUE]
        ELSE IF of
        THEN [o |-> [o1 EXCEPT !.written = Some(path)], raised |-> FALSE]
        ELSE [o |-> [o1 EXCEPT !.emitted = TRUE], raised |-> FALSE]

\* -------------------------------------------------------------- the commands

\* `for row in rows:` of presenters, one iteration
PresentersRow ==
    /\ cmd = "presenters"
    /\ ~aborted
    /\ pc <= Len(rows)
    /\ \E shot \in ShotChoices(rows[pc], output_folder, files) :
       \E resp \in ResponseChoices(rows[pc], output_folder, shot) :
          LET r == PresentersBody(rows[pc], output_folder, files,
                                  anon_speaker_counter, shot, resp)
          IN /\ out' = Append(out, r.o)
             /\ files' = r.files
             /\ anon_speaker_counter' = r.counter
    /\ pc' = pc + 1
    /\ UNCHANGED <<cmd, output_folder, rows, run, aborted, dir0, handle, stage,
                   mastodon>>

\* the command is started again on the same input and output root, with the
\* directory the first run left: anon_speaker_counter = count() starts at 0
\* again
SecondRun ==
    /\ cmd = "presenters"
    /\ output_folder
    /\ run = 1
    /\ pc = Len(rows) + 1
    /\ run' = 2
    /\ pc' = 1
    /\ anon_speaker_counter' = 0
    /\ out' = <<>>
    /\ UNCHANGED <<cmd, output_folder, rows, aborted, files, dir0, handle, stage,
                   mastodon>>

\* `for row in rows:` of main, one iteration
MainRow ==
    /\ cmd = "main"
    /\ ~aborted
    /\ pc <= Len(rows)
    /\ LET r == MainBody(rows[pc], output_folder)
       IN /\ out' = Append(out, r.o)
          /\ aborted' = r.raised
    /\ pc' = pc + 1
    /\ UNCHANGED <<cmd, output_folder, rows, run, anon_speaker_counter, files,
                   dir0, handle, stage, mastodon>>

Batches(R) == UNION {[1..n -> R] : n \in 1..MaxRows}

InitPresenters ==
    /\ cmd = "presenters"
    /\ output_folder \in BOOLEAN
    /\ rows \in Batches(PRows)
    /\ pc = 1
    /\ run = 1
    /\ aborted = FALSE
    /\ anon_speaker_counter = 0
    /\ files \in InitialDirs
    /\ dir0 = files
    /\ out = <<>>
    /\ handle = <<>>
    /\ stage = "off"
    /\ mastodon = None

InitMain ==
    /\ cmd = "main"
    /\ output_folder \in BOOLEAN
    /\ rows \in Batches(MRows)
    /\ pc = 1
    /\ run = 1
    /\ aborted = FALSE
    /\ anon_speaker_counter = 0
    /\ files = {}
    /\ dir0 = {}
    /\ out = <<>>
    /\ handle = <<>>
    /\ stage = "off"
    /\ mastodon = None

Init == InitPresenters \/ InitMain

Next == PresentersRow \/ SecondRun \/ MainRow

Spec == Init /\ [][Next]_vars

\* ------------------------------------- the two passes over a mastodon handle

HandleTokens == {"@", "u", "d"}

Handles == UNION {[1..n -> HandleTokens] : n \in 0..MaxHandle}

InitMastodon ==
    /\ cmd = "mastodon"
    /\ output_folder = FALSE
    /\ rows = <<>>
    /\ pc = 1
    /\ run = 1
    /\ aborted = FALSE
    /\ anon_speaker_counter = 0
    /\ files = {}
    /\ dir0 = {}
    /\ out = <<>>
    /\ handle \in {None} \cup {Some(h) : h \in Handles}
    /\ stage = "raw"
    /\ mastodon = handle

\* Social(mastodon=row.get("What is your mastodon/fediverse handle?"))
ConstructSocial ==
    /\ cmd = "mastodon"
    /\ stage = "raw"
    /\ mastodon' = SocialInit(mastodon)
    /\ stage' = "constructed"
    /\ UNCHANGED <<cmd, output_folder, rows, pc, run, aborted,
                   anon_speaker_counter, files, dir0, out, handle>>

\* lines 263-266 of presenters
CallMigrate ==
    /\ cmd = "mastodon"
    /\ stage = "constructed"
    /\ mastodon' = ExplicitCall(mastodon)
    /\ stage' = "migrated"
    /\ UNCHANGED <<cmd, output_folder, rows, pc, run, aborted,
                   anon_speaker_counter, files, dir0, out, handle>>

NextMastodon == ConstructSocial \/ CallMigrate

SpecMastodon == InitMastodon /\ [][NextMastodon]_vars

\* ------------------------------------------------------------------ claims

Finished == aborted \/ pc > Len(rows)

\* the rows processed so far by the command that runs
Done(c) == IF cmd = c THEN 1..Len(out) ELSE {}

\* C9: a handle "@user@domain" (exactly one "@" after the leading one)
\* normalizes to exactly "https://domain/@user"; a handle with more than one
\* "@" after the leading one becomes None, never a truncated URL; a handle
\* that does not start with "@" is unchanged.  The value is the same after
\* Social.__init__ and after the explicit second call.
C9_MastodonNormalization ==
    (cmd = "mastodon" /\ stage \in {"constructed", "migrated"} /\ IsSome(handle))
    => LET h == Get(handle)
           ats == {k \in 2..Len(h) : h[k] = "@"}
           at == CHOOSE k \in ats : TRUE
       IN IF h = <<>> \/ h[1] # "@" THEN mastodon = Some(h)
          ELSE /\ Cardinality(ats) = 1
                  => mastodon = Some(<<"https", ":", "/", "/">>
                                     \o SubSeq(h, at + 1, Len(h))
                                     \o <<"/", "@">>
                                     \o SubSeq(h, 2, at - 1))
               /\ Cardinality(ats) > 1 => mastodon = None

\* C9 happens: "@u@d" went through both passes, and so did "@u@d@u"
C9_Witness ==
    /\ stage = "migrated"
    /\ handle = Some(<<"@", "u", "@", "d">>)
    /\ mastodon = Some(<<"https", ":", "/", "/", "d", "/", "@", "u">>)

\* C6: in main, a document of category "tutorials" whose Start is present has
\* end_datetime = datetime + 3 h 30 min whatever the raw End is; a document of
\* any other category has the raw End at the same instant on the conference's
\* clock, or None when End is absent.
C6_TutorialOverride ==
    \A k \in Done("main") :
        IsSome(out[k].doc) =>
            LET row == rows[k]
                meta == Get(out[k].doc).metadata
            IN IF meta.category = <<"tutorials">>
               THEN IsSome(row.Start) =>
                       /\ IsSome(meta.datetime) /\ IsSome(meta.end_datetime)
                       /\ Get(meta.datetime).wall - Get(meta.datetime).off
                          = Get(row.Start).wall - Get(row.Start).off
                       /\ Get(meta.end_datetime).off = Get(meta.datetime).off
                       /\ Get(meta.end_datetime).wall
                          = Get(meta.datetime).wall + 3 * 60 + 30
               ELSE IF IsSome(row.End)
               THEN /\ IsSome(meta.end_datetime)
                    /\ Get(meta.end_datetime).off = CONFERENCE_TZ
                    /\ Get(meta.end_datetime).wall - Get(meta.end_datetime).off
                       = Get(row.End).wall - Get(row.End).off
               ELSE meta.end_datetime = None

\* C6 happens: a tutorial whose raw End lies before its Start got a document
C6_Witness ==
    \E k \in Done("main") :
        /\ rows[k].type = Tutorials
        /\ rows[k].Start = Some(T0900) /\ rows[k].End = Some(T0800)
        /\ IsSome(out[k].doc)
        /\ Get(out[k].doc).metadata.end_datetime = Some([wall |-> 750, off |-> -300])

\* the metadata block of the free-text field of row k, as the export holds it
ParsedBlock(k) ==
    LET text == IF cmd = "main" THEN rows[k].Description ELSE rows[k].Biography
    IN IF IsSome(text.block) THEN Get(text.block) ELSE EmptyDict

\* the keys the command passes to its model's constructor
AssignedKeys ==
    IF cmd = "main"
    THEN {"category", "permalink", "tags", "title", "presenter_slugs", "room",
          "track", "datetime", "end_datetime"}
    ELSE {"company", "hidden", "name", "permalink", "photo", "social"}

\* C10: the output metadata is the parsed block overlaid with the derived
\* fields: an assigned field holds the derived value, every other parsed key
\* is kept, and a model field that was never assigned is written neither as
\* its default nor as null; the body is unchanged.
C10_Merge ==
    \A k \in Done("main") \cup Done("presenters") :
        IsSome(out[k].doc) =>
            LET meta == Get(out[k].doc).metadata
                data == Get(out[k].data)
                parsed == ParsedBlock(k)
                body == IF cmd = "main" THEN rows[k].Description.body
                        ELSE rows[k].Biography.body
            IN /\ DOMAIN meta = DOMAIN parsed \cup AssignedKeys
               /\ \A key \in AssignedKeys : meta[key] = data[key]
               /\ \A key \in DOMAIN parsed \ AssignedKeys : meta[key] = parsed[key]
               /\ \A key \in DOMAIN data \ AssignedKeys :
                     key \in DOMAIN meta => key \in DOMAIN parsed
               /\ Get(out[k].doc).content = body

\* C10 happens: a description whose block sets title, difficulty and a custom
\* key was merged
C10_Witness ==
    \E k \in Done("main") :
        /\ rows[k].Description = BlockDescription
        /\ IsSome(out[k].doc)
        /\ Get(out[k].doc).metadata.difficulty = <<"Advanced">>
        /\ Get(out[k].doc).metadata.title = <<"Intro", " ", "Talk">>
        /\ Get(out[k].doc).metadata.custom = <<"x">>

\* a row ended in an exception
Failed(o) == o.result \notin {"ok", "skipped"}

\* C1 as stated: in both commands a failing record is reported and every
\* record after it is still processed; no record aborts the batch.
C1_Original ==
    /\ ~aborted
    /\ \A i \in Done("main") \cup Done("presenters") :
          Failed(out[i]) => out[i].reported

\* the documents row k put out
Documents(k) ==
    (IF IsSome(out[k].written) THEN 1 ELSE 0) + (IF out[k].emitted THEN 1 ELSE 0)

RECURSIVE Sum(_, _)
\* the sum of f over 1..n
Sum(f, n) == IF n = 0 THEN 0 ELSE f[n] + Sum(f, n - 1)

IsAccepted(row) == row.state = "accepted" \/ row.state = "confirmed"

\* C2 as stated: a record that is neither accepted nor confirmed puts out no
\* document and no error, an accepted or confirmed one exactly one document,
\* and a run puts out as many documents as the input has accepted or
\* confirmed records.
C2_Original ==
    cmd = "main" =>
        /\ \A k \in Done("main") :
              IF IsAccepted(rows[k]) THEN Documents(k) = 1
              ELSE Documents(k) = 0 /\ ~Failed(out[k])
        /\ Finished =>
              Sum([k \in 1..Len(out) |-> Documents(k)], Len(out))
              = Cardinality({k \in 1..Len(rows) : IsAccepted(rows[k])})

\* C2, amended: a record that is neither accepted nor confirmed puts out no
\* document and no error; an accepted or confirmed record that is processed
\* without an exception puts out exactly one document and one that raises puts
\* out none; a run puts out as many documents as it processed accepted or
\* confirmed records without an exception.
C2_AcceptanceFilter ==
    cmd = "main" =>
        /\ \A k \in Done("main") :
              IF IsAccepted(rows[k])
              THEN /\ out[k].result # "skipped"
                   /\ Documents(k) = IF Failed(out[k]) THEN 0 ELSE 1
              ELSE Documents(k) = 0 /\ out[k].result = "skipped"
        /\ Sum([k \in 1..Len(out) |-> Documents(k)], Len(out))
           = Cardinality({k \in 1..Len(out) :
                             IsAccepted(rows[k]) /\ ~Failed(out[k])})

\* C2 happens: a run skipped a submitted record and put out the one document
\* of a confirmed record
C2_Witness ==
    /\ cmd = "main" /\ Finished /\ Len(out) = 2
    /\ rows[1].state = "submitted" /\ Documents(1) = 0
    /\ rows[2].state = "confirmed" /\ Documents(2) = 1

\* the fetch of row k raised inside the try of lines 230-237
FetchRaised(o) == o.get /\ (o.resp.exc # "none" \/ o.resp.status >= 400)

\* the fetch of row k did not end in a 2xx response
FetchNot2xx(o) ==
    o.get /\ (o.resp.exc # "none" \/ o.resp.status < 200 \/ o.resp.status >= 300)

\* the row went on as if no fetch had been attempted
Degraded(o) ==
    /\ o.result = "ok"
    /\ o.asset = None
    /\ IsSome(o.doc) /\ IsSome(o.written)
    /\ Get(o.doc).metadata.photo = o.photo0
    /\ Get(o.doc).metadata.name = Get(o.name)
    /\ Get(o.written) = slugify(Get(o.name)) \o <<".", "md">>

\* C7 as stated: a fetch that ends in a connection failure or in a non-2xx
\* response writes no asset, leaves the photo at its pre-fetch value and the
\* document is written all the same.
C7_Original ==
    \A k \in Done("presenters") :
        FetchNot2xx(out[k]) =>
            /\ Degraded(out[k])
            /\ files = out[k].before \cup {Get(out[k].written)} \/ k < Len(out)

\* C7, amended: a fetch that raises (a connection failure, another requests
\* exception, or a 4xx or 5xx response) writes no asset, leaves the photo at
\* its pre-fetch value and the document is written all the same.
C7_FetchFailureDegrades ==
    \A k \in Done("presenters") :
        FetchRaised(out[k]) =>
            /\ Degraded(out[k])
            /\ files = out[k].before \cup {Get(out[k].written)} \/ k < Len(out)

\* C7 happens: a 404 left the URL in the document, which was written
C7_Witness ==
    \E k \in Done("presenters") :
        /\ out[k].get /\ out[k].resp.status = 404
        /\ out[k].photo0 = Some(UrlBare)
        /\ IsSome(out[k].written)
        /\ Get(out[k].doc).metadata.photo = Some(UrlBare)

\* C3 as stated: every record that passes validation (and the acceptance
\* filter) is written when an output root is configured and emitted when none
\* is, in both commands.
C3_Original ==
    \A k \in Done("main") \cup Done("presenters") :
        IsSome(out[k].data) =>
            IF output_folder THEN IsSome(out[k].written) /\ ~out[k].emitted
            ELSE out[k].emitted /\ ~IsSome(out[k].written)

\* a file of the directory that is no .md file and whose stem is the slug
StemFiles(dir, slug) ==
    {f \in dir : StartsWith(f, slug \o <<".">>) /\ ~EndsWith(f, <<".", "md">>)}

\* C4 as stated: when the presenter directory holds a non-.md file whose stem
\* is the slug of the presenter's name, that file's name is the photo and no
\* request goes out for the record; so a second run on the same input sends
\* nothing for a photo the first run stored.
C4_Original ==
    \A k \in Done("presenters") :
        (output_folder /\ IsSome(out[k].name)
         /\ StemFiles(out[k].before, slugify(Get(out[k].name))) # {})
        => /\ ~out[k].sent
           /\ IsSome(out[k].photo0)
           /\ Get(out[k].photo0)
              \in StemFiles(out[k].before, slugify(Get(out[k].name)))

\* the anonymous rows among the first k rows
Anonymous(k) == {j \in 1..k : ~IsSome(rows[j].Name) \/ Get(rows[j].Name) = <<>>}

\* C5 as stated: the k-th record whose Name is absent or empty yields the
\* document "Anonymous speaker k", k counting from 0, with or without an
\* output root (here for records with a valid company and no photo).
C5_Original ==
    \A i \in Done("presenters") :
        (i \in Anonymous(i) /\ rows[i].company.type = "str"
         /\ ~IsSome(rows[i].Picture))
        => /\ IsSome(out[i].doc)
           /\ Get(out[i].doc).metadata.name
              = <<"Anonymous", " ", "speaker", " ",
                  Digit(Cardinality(Anonymous(i)) - 1)>>

\* C8 as stated: after a successful fetch the asset is slug(name) + "." + ext,
\* ext being the suffix of the URL's last path segment when that segment holds
\* a ".", else the subtype of an image/ content type without "+"; the photo is
\* that file name; any other content type fails the record with no asset and
\* no document.
C8_Original ==
    \A k \in Done("presenters") :
        (out[k].get /\ out[k].resp.exc = "none" /\ out[k].resp.status = 200)
        => LET url == Get(out[k].photo0)
               slashes == {n \in 1..Len(url) : url[n] = "/"}
               segment == SubSeq(url, Max(slashes) + 1, Len(url))
               dots == {n \in 1..Len(url) : url[n] = "."}
               ctype == out[k].resp.ctype
               slug == slugify(Get(out[k].name))
               stored(ext) ==
                   /\ out[k].asset = Some(slug \o <<".">> \o ext)
                   /\ IsSome(out[k].doc)
                   /\ Get(out[k].doc).metadata.photo = out[k].asset
           IN IF Contains(segment, ".")
              THEN stored(SubSeq(url, Max(dots) + 1, Len(url)))
              ELSE IF IsSome(ctype) /\ Get(ctype)[1] = "image"
                      /\ ~Contains(Get(ctype), "+")
              THEN stored(SubSeq(Get(ctype), 3, Len(Get(ctype))))
              ELSE /\ out[k].asset = None /\ ~IsSome(out[k].doc)
                   /\ out[k].reported

====
